---- MODULE Spec2Model ----
(***************************************************************************)
(* A model of createForm (src/src/create-form.ts): the stores data,        *)
(* touched, errors and isSubmitting, the form action with its four DOM     *)
(* listeners and destroy(), the asynchronous handleSubmit, and the         *)
(* data.set the form returns (newDataSet).                                 *)
(*                                                                         *)
(* JavaScript is single threaded and runs every handler to completion, so  *)
(* every handler is one step; handleSubmit is two, split at its await.     *)
(***************************************************************************)
EXTENDS Integers, Sequences, FiniteSets, TLC

(***************************************************************************)
(* Bounds                                                                  *)
(***************************************************************************)
\* number of submit events delivered to a form under Spec and LiveSpec
MaxSubmits == 2
\* number of submit events delivered to a form under FieldSpec
MaxFieldSubmits == 1
\* number of submit events delivered to a form under LiveSpec
MaxLiveSubmits == 1
\* number of calls of data.set by a caller that delivers no submit event
MaxSets == 1
\* number of submit events and of calls of data.set under DataSpec
MaxDataSubmits == 1
MaxDataSets == 1

(***************************************************************************)
(* JavaScript values held in the Data Record.  Every value is a record of  *)
(* the same shape so that values of different JavaScript types compare.    *)
(***************************************************************************)
Val(k, s, n, b, a) == [kind |-> k, s |-> s, n |-> n, b |-> b, a |-> a]
Undef   == Val("undefined", "", 0, FALSE, <<>>)
NaN     == Val("NaN", "", 0, FALSE, <<>>)
Str(s)  == Val("string", s, 0, FALSE, <<>>)
Num(n)  == Val("number", "", n, FALSE, <<>>)
Bool(b) == Val("boolean", "", 0, b, <<>>)
Arr(a)  == Val("array", "", 0, FALSE, a)

\* an object without keys
EmptyObject == [k \in {} |-> Undef]

\* { ...obj, [key]: v }
Spread(obj, key, v) ==
  [k \in (DOMAIN obj) \cup {key} |-> IF k = key THEN v ELSE obj[k]]

\* obj[key]: undefined when obj has no such key
Get(obj, key) == IF key \in DOMAIN obj THEN obj[key] ELSE Undef

\* a !== b: primitives compare by value, NaN differs from everything, and
\* an array is equal only to itself (the arrays of this model are distinct
\* objects: one the form or the caller built, the other of initialValues)
StrictNotEqual(a, b) ==
  a.kind = "NaN" \/ b.kind = "NaN" \/ a.kind = "array" \/ b.kind = "array"
  \/ a # b

\* the strings a text-like control holds in this model
TextValues == {"", "a"}
\* the strings a number control holds in this model
NumberValues == {"", "7", "x"}
\* the decimal strings of the model and the numbers they denote
NumericStrings == [s \in {"", "7"} |-> IF s = "" THEN 0 ELSE 7]

\* unary plus: +"" is 0, a decimal string is its number, anything else NaN
ToNumber(s) ==
  IF s \in DOMAIN NumericStrings THEN Num(NumericStrings[s]) ELSE NaN

(***************************************************************************)
(* The bound form: node.elements in DOM order.  nodeName, type, name and   *)
(* (for checkbox and radio) the value attribute never change.              *)
(* In the forms below a name is shared only by the radios of one group or  *)
(* the checkboxes of one group.                                            *)
(***************************************************************************)
El(nodeName, type, name, value) ==
  [nodeName |-> nodeName, type |-> type, name |-> name, value |-> value]

\* the account fields of createSignupForm: a text input and a lone checkbox
AccountForm ==
  << El("INPUT", "email", "email", ""),
     El("INPUT", "checkbox", "showPassword", "on") >>

\* a fieldset, a textarea, a number input, the file input with a dotted
\* name of createSignupForm and the unnamed submit button
ProfileForm ==
  << El("FIELDSET", "fieldset", "profile", ""),
     El("TEXTAREA", "textarea", "bio", ""),
     El("INPUT", "number", "age", ""),
     El("INPUT", "file", "profile.picture", ""),
     El("INPUT", "submit", "", "") >>

\* the radio group of createSignupForm, with a third radio
RadioForm ==
  << El("INPUT", "radio", "publicEmail", "yes"),
     El("INPUT", "radio", "publicEmail", "no"),
     El("INPUT", "radio", "publicEmail", "ask") >>

\* the checkbox group of createSignupForm, with a third checkbox
CheckboxForm ==
  << El("INPUT", "checkbox", "preferences", "technology"),
     El("INPUT", "checkbox", "preferences", "films"),
     El("INPUT", "checkbox", "preferences", "music") >>

Layouts == << AccountForm, ProfileForm, RadioForm, CheckboxForm >>

\* the object with the given <<key, value>> pairs
Object(pairs) ==
  [k \in {pairs[i][1] : i \in DOMAIN pairs} |->
     pairs[CHOOSE i \in DOMAIN pairs : pairs[i][1] = k][2]]

\* config.initialValues, when the caller supplies them, for each form
InitialValuesOf ==
  << Object(<< <<"email", Str("")>>, <<"showPassword", Bool(FALSE)>> >>),
     Object(<< <<"bio", Str("")>>, <<"age", Num(0)>>,
               <<"profile.picture", Str("")>> >>),
     Object(<< <<"publicEmail", Str("yes")>> >>),
     Object(<< <<"preferences", Arr(<<>>)>> >>) >>

\* the values the caller gives to data.set, for each form: with and
\* without a change of a field, without a field, with a key of no field
SetValuesOf ==
  << { Object(<< <<"email", Str("a")>>, <<"showPassword", Bool(FALSE)>> >>),
       Object(<< <<"email", Str("")>>, <<"nickname", Str("a")>> >>) },
     { Object(<< <<"bio", Str("a")>>, <<"age", Num(0)>>,
                 <<"profile.picture", Str("")>> >>),
       Object(<< <<"bio", Str("")>>, <<"age", Num(7)>>,
                 <<"profile.picture", Str("")>> >>) },
     { Object(<< <<"publicEmail", Str("no")>> >>),
       Object(<< <<"publicEmail", Str("yes")>> >>) },
     { Object(<< <<"preferences", Arr(<<"films">>)>> >>),
       Object(<< <<"preferences", Arr(<<>>)>> >>) } >>

isInputElement(el) == el.nodeName = "INPUT"

isTextAreaElement(el) == el.nodeName = "TEXTAREA"

isCheckable(el) == isInputElement(el) /\ el.type \in {"checkbox", "radio"}

\* a control the user can type into, or pick a file for
isTypable(el) ==
  (/\ isInputElement(el)
   /\ el.type \in {"email", "text", "number", "range", "file"})
  \/ isTextAreaElement(el)

ValuesFor(el) ==
  IF el.type \in {"number", "range"} THEN NumberValues ELSE TextValues

\* the live state of one control
ElementStates(el) ==
  IF isCheckable(el)
    THEN {[value |-> el.value, checked |-> c] : c \in BOOLEAN}
    ELSE IF isTypable(el)
      THEN {[value |-> v, checked |-> FALSE] : v \in ValuesFor(el)}
      ELSE {[value |-> el.value, checked |-> FALSE]}

RECURSIVE DomSeqs(_, _)
DomSeqs(L, n) ==
  IF n = 0 THEN {<<>>}
  ELSE {Append(p, s) : p \in DomSeqs(L, n - 1), s \in ElementStates(L[n])}

\* the browser keeps at most one radio of a group checked
RadioGroupsOk(L, d) ==
  \A i, j \in 1..Len(L) :
    (/\ i # j
     /\ L[i].type = "radio" /\ L[j].type = "radio"
     /\ L[i].name = L[j].name
     /\ d[i].checked) => ~d[j].checked

DomStates(L) == {d \in DomSeqs(L, Len(L)) : RadioGroupsOk(L, d)}

\* the errors thrown by the consumer's onSubmit
ThrownErrors == {"Error"}

(***************************************************************************)
(* The Errors object: the keys map to a message or to a nested object of   *)
(* messages (a sequence of <<key, message>> pairs).                        *)
(***************************************************************************)
EMsg(s) == [kind |-> "string", s |-> s, o |-> <<>>]
EObj(o) == [kind |-> "object", s |-> "", o |-> o]

ErrorsValues ==
  { [k \in {} |-> EMsg("")],
    [k \in {"email"} |-> EMsg("Not email")],
    [k \in {"email"} |-> EMsg("")],
    [k \in {"account"} |-> EObj(<< <<"email", "">> >>)] }

\* !!v for an entry of the Errors object: objects and non-empty strings
Truthy(v) == v.kind = "object" \/ v.s # ""

VARIABLES
  layout,       \* which form of Layouts is bound (fixed)
  config,       \* [onError, useConstraintApi, initialValues]: which
                \* options the caller gave (fixed)
  dom,          \* the live state of the controls: value and checked
  bound,        \* form(node) has been called
  listeners,    \* the event types whose listener is attached to the node
  subscribed,   \* the errors subscription of the constraint API is live
  validity,     \* per control, the message given to setCustomValidity
  data,         \* the data store
  touched,      \* the touched store
  errors,       \* the errors store
  isSubmitting, \* the isSubmitting store
  inv,          \* the handleSubmit invocations, in order of their start
  destroyed,    \* destroy() has been called
  submitBudget, \* how many submit events the user delivers (fixed)
  setBudget     \* how many calls of data.set the caller still makes

vars == << layout, config, dom, bound, listeners, subscribed, validity,
           data, touched, errors, isSubmitting, inv, destroyed,
           submitBudget, setBudget >>

Elements == Layouts[layout]

\* config.initialValues of the bound form's caller, when supplied
initialValues == InitialValuesOf[layout]

ElementIds == 1..Len(Elements)

\* the test of lines 79, 170 without its test of the name
isField_AnyName(el) == isInputElement(el) \/ isTextAreaElement(el)

\* a named input or textarea: the controls lines 79, 170 do not skip
isField(el) == (isInputElement(el) \/ isTextAreaElement(el)) /\ el.name # ""

\* node.querySelectorAll(`[name=${name}]`), in document order
querySelectorAll(name) == {i \in ElementIds : Elements[i].name = name}

RECURSIVE CheckedValues(_, _, _)
\* the value attributes of the checked members of ids, from index i on
CheckedValues(d, ids, i) ==
  IF i > Len(Elements) THEN <<>>
  ELSE IF i \in ids /\ d[i].checked
    THEN <<d[i].value>> \o CheckedValues(d, ids, i + 1)
    ELSE CheckedValues(d, ids, i + 1)

(***************************************************************************)
(* setFormFieldsDefaultValues                                              *)
(***************************************************************************)
\* typeof obj[name] === 'undefined'
IsUndefined(obj, name) == name \notin DOMAIN obj \/ obj[name] = Undef

\* one pass of the loop body (lines 79-102) over element i;
\* st is [touched, defaultData]
DefaultValuesStep(st, d, i) ==
  LET el == Elements[i]
      dd == st.defaultData
      t  == Spread(st.touched, el.name, FALSE)
  IN IF ~isField(el) THEN st
     ELSE IF isInputElement(el) /\ el.type = "checkbox" THEN
       IF IsUndefined(dd, el.name) THEN
         IF Cardinality(querySelectorAll(el.name)) = 1
           THEN [touched |-> t,
                 defaultData |-> Spread(dd, el.name, Bool(d[i].checked))]
           ELSE [touched |-> t,
                 defaultData |->
                   Spread(dd, el.name,
                          Arr(IF d[i].checked THEN <<d[i].value>> ELSE <<>>))]
       ELSE IF dd[el.name].kind = "array" /\ d[i].checked
         THEN [touched |-> t,
               defaultData |->
                 Spread(dd, el.name, Arr(Append(dd[el.name].a, d[i].value)))]
         ELSE [touched |-> t, defaultData |-> dd]
     ELSE IF isInputElement(el) /\ el.type = "radio" /\ d[i].checked
       THEN [touched |-> t,
             defaultData |-> Spread(dd, el.name, Str(d[i].value))]
       ELSE [touched |-> t,
             defaultData |->
               Spread(dd, el.name,
                      IF el.type \in {"number", "range"}
                        THEN ToNumber(d[i].value)
                        ELSE Str(d[i].value))]

RECURSIVE DefaultValuesLoop(_, _, _)
\* for (const el of node.elements), from element i on
DefaultValuesLoop(st, d, i) ==
  IF i > Len(Elements) THEN st
  ELSE DefaultValuesLoop(DefaultValuesStep(st, d, i), d, i + 1)

\* the stores after setFormFieldsDefaultValues(node): touched keeps its
\* other entries, data is replaced by defaultData
setFormFieldsDefaultValues(t, d) ==
  LET st == DefaultValuesLoop([touched |-> t, defaultData |-> EmptyObject],
                              d, 1)
  IN [touched |-> st.touched, data |-> st.defaultData]

(***************************************************************************)
(* newDataSet, lines 62-74: maps the stores S = [data, touched] to the     *)
(* stores after data.set(values).                                          *)
(***************************************************************************)
\* newDataSet with a reducer that runs over every key of touched, not only
\* over the untouched ones
newDataSet_EveryKey(S, values) ==
  IF DOMAIN S.touched # {} /\ ~config.initialValues THEN S
  ELSE [touched |->
          [key \in DOMAIN S.touched |->
             StrictNotEqual(Get(values, key), Get(initialValues, key))],
        data |-> values]

\* newDataSet with a reducer that starts from an empty object instead of
\* the current Touched map
newDataSet_FromEmpty(S, values) ==
  LET untouchedKeys == {key \in DOMAIN S.touched : ~S.touched[key]}
  IN IF untouchedKeys # {} /\ ~config.initialValues THEN S
     ELSE [touched |->
             [key \in untouchedKeys |->
                StrictNotEqual(Get(values, key), Get(initialValues, key))],
           data |-> values]

\* without config.initialValues line 68 reads a property of undefined: the
\* reducer throws a TypeError for the first untouched key, touched.update
\* does not set the store and line 73 is not reached
newDataSet(S, values) ==
  LET untouchedKeys == {key \in DOMAIN S.touched : ~S.touched[key]}
  IN IF untouchedKeys # {} /\ ~config.initialValues THEN S
     ELSE [touched |->
             [key \in DOMAIN S.touched |->
                IF key \in untouchedKeys
                  THEN StrictNotEqual(Get(values, key),
                                      Get(initialValues, key))
                  ELSE S.touched[key]],
           data |-> values]

(***************************************************************************)
(* The handlers of form(node).  Each maps the stores S = [data, touched]   *)
(* and the live controls d to the stores after the handler.                *)
(***************************************************************************)
\* setCheckboxValues taking the target's value alone instead of the values
\* of all checked boxes of the group
setCheckboxValues_TargetOnly(dataObj, d, i) ==
  LET name == Elements[i].name
      checkboxes == querySelectorAll(name)
  IN IF Cardinality(checkboxes) = 1
       THEN Spread(dataObj, name, Bool(d[i].checked))
       ELSE Spread(dataObj, name,
                   Arr(IF d[i].checked THEN <<d[i].value>> ELSE <<>>))

\* setCheckboxValues without the test for a lone checkbox
setCheckboxValues_AlwaysArray(dataObj, d, i) ==
  LET name == Elements[i].name
      checkboxes == querySelectorAll(name)
  IN Spread(dataObj, name, Arr(CheckedValues(d, checkboxes, 1)))

setCheckboxValues(dataObj, d, i) ==
  LET name == Elements[i].name
      checkboxes == querySelectorAll(name)
  IN IF Cardinality(checkboxes) = 1
       THEN Spread(dataObj, name, Bool(d[i].checked))
       ELSE Spread(dataObj, name, Arr(CheckedValues(d, checkboxes, 1)))

setRadioValues(dataObj, d, i) ==
  LET name == Elements[i].name
      radios == querySelectorAll(name)
      found == {j \in radios : isInputElement(Elements[j]) /\ d[j].checked}
      checkedRadio == CHOOSE j \in found : \A k \in found : j <= k
  IN Spread(dataObj, name,
            IF found = {} THEN Undef ELSE Str(d[checkedRadio].value))

\* handleInput without the numeric conversion of lines 141-142
handleInput_RawString(S, d, i) ==
  LET target == Elements[i]
  IN IF ~isInputElement(target) /\ ~isTextAreaElement(target) THEN S
     ELSE IF target.type = "checkbox" \/ target.type = "radio" THEN S
     ELSE IF target.name = "" THEN S
     ELSE [touched |-> Spread(S.touched, target.name, TRUE),
           data |-> Spread(S.data, target.name, Str(d[i].value))]

handleInput(S, d, i) ==
  LET target == Elements[i]
  IN IF ~isInputElement(target) /\ ~isTextAreaElement(target) THEN S
     ELSE IF target.type = "checkbox" \/ target.type = "radio" THEN S
     ELSE IF target.name = "" THEN S
     ELSE [touched |-> Spread(S.touched, target.name, TRUE),
           data |-> Spread(S.data, target.name,
                           IF target.type \in {"number", "range"}
                             THEN ToNumber(d[i].value)
                             ELSE Str(d[i].value))]

handleChange(S, d, i) ==
  LET target == Elements[i]
      t == Spread(S.touched, target.name, TRUE)
  IN IF ~isInputElement(target) THEN S
     ELSE IF target.name = "" THEN S
     ELSE IF target.type = "checkbox"
       THEN [touched |-> t, data |-> setCheckboxValues(S.data, d, i)]
     ELSE IF target.type = "radio"
       THEN [touched |-> t, data |-> setRadioValues(S.data, d, i)]
     ELSE [touched |-> t, data |-> S.data]

\* handleBlur without the test of the target's kind of line 158
handleBlur_AnyTarget(S, d, i) ==
  LET target == Elements[i]
  IN IF target.name = "" THEN S
     ELSE [touched |-> Spread(S.touched, target.name, TRUE),
           data |-> S.data]

handleBlur(S, d, i) ==
  LET target == Elements[i]
  IN IF ~isInputElement(target) /\ ~isTextAreaElement(target) THEN S
     ELSE IF target.name = "" THEN S
     ELSE [touched |-> Spread(S.touched, target.name, TRUE),
           data |-> S.data]

\* the message line 172 gives to setCustomValidity for each control
CustomValidity(e, old) ==
  [i \in ElementIds |->
     IF ~isField(Elements[i]) THEN old[i]
     ELSE IF Elements[i].name \in DOMAIN e /\ Truthy(e[Elements[i].name])
       THEN IF e[Elements[i].name].kind = "string"
              THEN e[Elements[i].name].s
              ELSE "[object Object]"
       ELSE ""]

\* node.removeEventListener(type, handler)
removeEventListener(ls, type) == ls \ {type}

Stores == [data |-> data, touched |-> touched]

\* the listener of an event type runs only while it is attached
Dispatch(type, S, after) == IF type \in listeners THEN after ELSE S

(***************************************************************************)
(* Initial state: createForm(config) has returned, form(node) not yet.     *)
(***************************************************************************)
\* the stores of line 28, as createStores (./stores) makes them: data and
\* touched from the initialValues when supplied (every entry untouched),
\* else no data and nothing touched; no errors
createStores ==
  /\ data = IF config.initialValues THEN initialValues ELSE EmptyObject
  /\ touched = IF config.initialValues
                 THEN [k \in DOMAIN initialValues |-> FALSE]
                 ELSE [k \in {} |-> FALSE]
  /\ errors = [k \in {} |-> EMsg("")]
  /\ isSubmitting = FALSE

InitOver(layouts, configs, submits, sets) ==
  /\ layout \in layouts
  /\ config \in configs
  /\ submitBudget = submits
  /\ setBudget = sets
  /\ dom \in DomStates(Layouts[layout])
  /\ bound = FALSE
  /\ destroyed = FALSE
  /\ listeners = {}
  /\ subscribed = FALSE
  /\ validity = [i \in 1..Len(Layouts[layout]) |-> ""]
  /\ createStores
  /\ inv = <<>>

unchangedForm == UNCHANGED << layout, config, submitBudget, setBudget >>
unchangedSubmit == UNCHANGED << isSubmitting, inv >>
unchangedBinding ==
  UNCHANGED << bound, destroyed, listeners, subscribed, validity, errors >>

\* form(node), lines 107-186
Bind ==
  /\ ~bound
  /\ LET S == setFormFieldsDefaultValues(touched, dom)
     IN /\ data' = S.data
        /\ touched' = S.touched
  /\ bound' = TRUE
  /\ listeners' = {"input", "change", "focusout", "submit"}
  /\ subscribed' = config.useConstraintApi
  /\ validity' = IF config.useConstraintApi
                   THEN CustomValidity(errors, validity)
                   ELSE validity
  /\ UNCHANGED << dom, errors, destroyed >>
  /\ unchangedForm /\ unchangedSubmit

\* destroy(), lines 178-184
Destroy ==
  /\ bound
  /\ listeners' =
       removeEventListener(
         removeEventListener(
           removeEventListener(
             removeEventListener(listeners, "input"),
             "change"),
           "foucsout"),
         "submit")
  /\ subscribed' = FALSE
  /\ destroyed' = TRUE
  /\ UNCHANGED << dom, bound, validity, data, touched, errors >>
  /\ unchangedForm /\ unchangedSubmit

\* the caller replaces the Data Record: data.set(values), line 190
DataSet(values) ==
  /\ setBudget > 0
  /\ setBudget' = setBudget - 1
  /\ LET S == newDataSet(Stores, values)
     IN /\ data' = S.data
        /\ touched' = S.touched
  /\ UNCHANGED << layout, config, submitBudget, dom >>
  /\ unchangedSubmit /\ unchangedBinding

\* the errors store takes a new value (the validation's result); the
\* subscription of lines 168-174 pushes it to the controls
SetErrors(e) ==
  /\ e # errors
  /\ errors' = e
  /\ validity' = IF subscribed THEN CustomValidity(e, validity) ELSE validity
  /\ UNCHANGED << dom, bound, destroyed, listeners, subscribed,
                  data, touched >>
  /\ unchangedForm /\ unchangedSubmit

(***************************************************************************)
(* The user acts on the bound form and the browser dispatches the events.  *)
(***************************************************************************)
\* typing sets the control's value and fires an input event
Type(i, v) ==
  /\ bound
  /\ isTypable(Elements[i])
  /\ v \in ValuesFor(Elements[i])
  /\ v # dom[i].value
  /\ dom' = [dom EXCEPT ![i].value = v]
  /\ LET S == Dispatch("input", Stores, handleInput(Stores, dom', i))
     IN /\ data' = S.data
        /\ touched' = S.touched
  /\ unchangedForm /\ unchangedSubmit /\ unchangedBinding

\* an input event with target i whose state did not change with it (a
\* synthetic event)
Input(i) ==
  /\ bound
  /\ LET S == Dispatch("input", Stores, handleInput(Stores, dom, i))
     IN /\ data' = S.data
        /\ touched' = S.touched
  /\ UNCHANGED dom
  /\ unchangedForm /\ unchangedSubmit /\ unchangedBinding

\* the controls after a click on checkbox or radio i
Clicked(d, i) ==
  IF Elements[i].type = "checkbox"
    THEN [d EXCEPT ![i].checked = ~d[i].checked]
    ELSE [j \in ElementIds |->
            IF j = i THEN [d[j] EXCEPT !.checked = TRUE]
            ELSE IF Elements[j].type = "radio"
                    /\ Elements[j].name = Elements[i].name
              THEN [d[j] EXCEPT !.checked = FALSE]
              ELSE d[j]]

\* a click toggles a checkbox or selects an unselected radio and fires an
\* input event, then a change event
Click(i) ==
  /\ bound
  /\ isCheckable(Elements[i])
  /\ Elements[i].type = "radio" => ~dom[i].checked
  /\ dom' = Clicked(dom, i)
  /\ LET S1 == Dispatch("input", Stores, handleInput(Stores, dom', i))
         S2 == Dispatch("change", S1, handleChange(S1, dom', i))
     IN /\ data' = S2.data
        /\ touched' = S2.touched
  /\ unchangedForm /\ unchangedSubmit /\ unchangedBinding

\* a change event on a control whose state did not change with it (the
\* commit of an edited text, or a synthetic event)
Change(i) ==
  /\ bound
  /\ LET S == Dispatch("change", Stores, handleChange(Stores, dom, i))
     IN /\ data' = S.data
        /\ touched' = S.touched
  /\ UNCHANGED dom
  /\ unchangedForm /\ unchangedSubmit /\ unchangedBinding

\* a focusout event with target i
FocusOut(i) ==
  /\ bound
  /\ LET S == Dispatch("focusout", Stores, handleBlur(Stores, dom, i))
     IN /\ data' = S.data
        /\ touched' = S.touched
  /\ UNCHANGED dom
  /\ unchangedForm /\ unchangedSubmit /\ unchangedBinding

(***************************************************************************)
(* handleSubmit, lines 31-60.  One record per invocation:                  *)
(*   pc            "await" while line 53 awaits, "done" after the return   *)
(*   wrote         the value the invocation last set isSubmitting to       *)
(*   calls, arg    the calls of config.onSubmit and the argument of the    *)
(*                 pending call (dropped when the invocation returns)      *)
(*   err           the error onSubmit threw or rejected with               *)
(*   onErrorCalls, onErrorArg   the calls of config.onError                *)
(*   thrown        the error line 55 rethrew                               *)
(*   settled, reason   the promise handleSubmit returned to its caller     *)
(*   log           the statements the invocation executed, in order        *)
(***************************************************************************)
\* Object.keys(currentErrors).some((key) => !!currentErrors[key])
hasErrors(currentErrors) ==
  \E key \in DOMAIN currentErrors : Truthy(currentErrors[key])

\* a reducer that runs over the keys of the Errors object as well
AllTouched_ErrorKeys(t) == [key \in (DOMAIN t) \cup (DOMAIN errors) |-> TRUE]

\* the reducer of lines 36-42: every key of t becomes true
AllTouched(t) == [key \in DOMAIN t |-> TRUE]

\* lines 33-34 of a new invocation
Started ==
  [pc |-> "run", wrote |-> TRUE,
   calls |-> 0, arg |-> EmptyObject, err |-> "none",
   onErrorCalls |-> 0, onErrorArg |-> "none", thrown |-> "none",
   settled |-> "pending", reason |-> "none",
   log |-> <<"isSubmitting.set(true)">>]

\* lines 35-43
Touch(r) == [r EXCEPT !.log = Append(@, "touched.update")]

\* lines 49-51: reportValidity() under the constraint API, then return
Halt(r) ==
  IF config.useConstraintApi
    THEN [r EXCEPT !.log = Append(@, "reportValidity")]
    ELSE r

\* line 53, the call: config.onSubmit(get(data))
Call(r) ==
  [r EXCEPT !.calls = @ + 1, !.arg = data, !.log = Append(@, "onSubmit")]

\* line 53, the await of the promise onSubmit returned
Await(r) == [r EXCEPT !.pc = "await", !.log = Append(@, "await")]

\* onSubmit throws e, or the promise it returned rejects with e
Throws(r, e) == [r EXCEPT !.err = e]

\* a catch block that gives the error to onError and rethrows it as well
Catch_AlsoRethrows(r) ==
  IF ~config.onError
    THEN [r EXCEPT !.thrown = r.err, !.log = Append(@, "throw")]
    ELSE [r EXCEPT !.onErrorCalls = @ + 1, !.onErrorArg = r.err,
                   !.thrown = r.err,
                   !.log = Append(@, "onError") \o <<"throw">>]

\* lines 54-56: without onError the error is rethrown, else given to it
Catch(r) ==
  IF ~config.onError
    THEN [r EXCEPT !.thrown = r.err, !.log = Append(@, "throw")]
    ELSE [r EXCEPT !.onErrorCalls = @ + 1, !.onErrorArg = r.err,
                   !.log = Append(@, "onError")]

\* isSubmitting.set(false) placed after the await instead of in a finally
\* block: a rethrown error skips it
Finally_SkippedByThrow(r) ==
  [r EXCEPT !.pc = "done",
            !.wrote = IF r.thrown = "none" THEN FALSE ELSE r.wrote,
            !.arg = EmptyObject,
            !.settled = IF r.thrown = "none" THEN "fulfilled" ELSE "rejected",
            !.reason = r.thrown,
            !.log = IF r.thrown = "none"
                      THEN Append(@, "isSubmitting.set(false)") ELSE @]

\* lines 57-59: isSubmitting.set(false); then the promise of handleSubmit
\* settles, rejected with the error in flight if there is one
Finally(r) ==
  [r EXCEPT !.pc = "done",
            !.wrote = FALSE,
            !.arg = EmptyObject,
            !.settled = IF r.thrown = "none" THEN "fulfilled" ELSE "rejected",
            !.reason = r.thrown,
            !.log = Append(@, "isSubmitting.set(false)")]

\* handleSubmit without the return of line 51
handleSubmit_NoReturn(outcome) ==
  LET r == Touch(Started)
      h == IF hasErrors(errors) THEN Halt(r) ELSE r
  IN IF outcome = "promise" THEN Await(Call(h))
     ELSE Finally(Catch(Throws(Call(h), outcome)))

\* the synchronous part of handleSubmit, up to its await or its return;
\* outcome is what onSubmit does when called: it returns a promise or throws
handleSubmit(outcome) ==
  LET r == Touch(Started)
  IN IF hasErrors(errors) THEN Finally(Halt(r))
     ELSE IF outcome = "promise" THEN Await(Call(r))
     ELSE Finally(Catch(Throws(Call(r), outcome)))

\* the rest of handleSubmit once the awaited promise has settled
resume(r, outcome) ==
  IF outcome = "fulfilled" THEN Finally(r)
  ELSE Finally(Catch(Throws(r, outcome)))

unchangedNode ==
  UNCHANGED << dom, bound, destroyed, listeners, subscribed, validity >>

\* a submit event on the form
Submit(outcome) ==
  /\ bound
  /\ IF "submit" \in listeners
       THEN /\ Len(inv) < submitBudget
            /\ LET r == handleSubmit(outcome)
               IN /\ inv' = Append(inv, r)
                  /\ touched' = AllTouched(touched)
                  /\ isSubmitting' = r.wrote
       ELSE UNCHANGED << inv, touched, isSubmitting >>
  /\ UNCHANGED << data, errors >>
  /\ unchangedForm /\ unchangedNode

\* a destroy() that cancels the invocations in flight: they never resume
Settle_CancelledByDestroy(i, outcome) ==
  /\ ~destroyed
  /\ i \in 1..Len(inv)
  /\ inv[i].pc = "await"
  /\ LET r == resume(inv[i], outcome)
     IN /\ inv' = [inv EXCEPT ![i] = r]
        /\ isSubmitting' = r.wrote
  /\ UNCHANGED << data, touched, errors >>
  /\ unchangedForm /\ unchangedNode

\* the promise awaited by invocation i settles and the invocation resumes
Settle(i, outcome) ==
  /\ i \in 1..Len(inv)
  /\ inv[i].pc = "await"
  /\ LET r == resume(inv[i], outcome)
     IN /\ inv' = [inv EXCEPT ![i] = r]
        /\ isSubmitting' = r.wrote
  /\ UNCHANGED << data, touched, errors >>
  /\ unchangedForm /\ unchangedNode

Next ==
  \/ Bind
  \/ Destroy
  \/ \E e \in ErrorsValues : SetErrors(e)
  \/ \E values \in SetValuesOf[layout] : DataSet(values)
  \/ \E i \in ElementIds : \E v \in TextValues \cup NumberValues : Type(i, v)
  \/ \E i \in ElementIds : Input(i)
  \/ \E i \in ElementIds : Click(i)
  \/ \E i \in ElementIds : Change(i)
  \/ \E i \in ElementIds : FocusOut(i)
  \/ \E outcome \in {"promise"} \cup ThrownErrors : Submit(outcome)
  \/ \E i \in 1..Len(inv) :
       \E outcome \in {"fulfilled"} \cup ThrownErrors : Settle(i, outcome)

Configs ==
  [onError : BOOLEAN, useConstraintApi : BOOLEAN, initialValues : BOOLEAN]

\* the configurations with onError and without the constraint API, with and
\* without initialValues
DataConfigs == {c \in Configs : c.onError /\ ~c.useConstraintApi}

\* the account form: every configuration without initialValues under
\* submit events, or data.set calls with and without initialValues
Init ==
  \/ InitOver({1}, {c \in Configs : ~c.initialValues}, MaxSubmits, 0)
  \/ InitOver({1}, DataConfigs, 0, MaxSets)

Spec == Init /\ [][Next]_vars

\* with onError and without the constraint API: every form under the
\* events of its controls, the account form under submit events as well,
\* or every form under data.set calls
FieldInit ==
  \/ InitOver(1..Len(Layouts), {c \in DataConfigs : ~c.initialValues}, 0, 0)
  \/ InitOver({1}, {c \in DataConfigs : ~c.initialValues},
              MaxFieldSubmits, 0)
  \/ InitOver(1..Len(Layouts), DataConfigs, 0, MaxSets)

FieldSpec == FieldInit /\ [][Next]_vars

\* the promise every pending onSubmit returned settles in the end
LiveInit ==
  \/ InitOver({1}, {c \in Configs : ~c.useConstraintApi /\ ~c.initialValues},
              MaxLiveSubmits, 0)
  \/ InitOver({1}, DataConfigs, 0, MaxSets)

Fairness ==
  \A i \in 1..MaxLiveSubmits :
    WF_vars(\E outcome \in {"fulfilled"} \cup ThrownErrors : Settle(i, outcome))

LiveSpec == LiveInit /\ [][Next]_vars /\ Fairness

\* the account form under submit events and data.set calls together
DataInit == InitOver({1}, DataConfigs, MaxDataSubmits, MaxDataSets)

DataSpec == DataInit /\ [][Next]_vars

(***************************************************************************)
(* Properties                                                              *)
(***************************************************************************)
\* the Errors object has a truthy entry
ErrorsNonEmpty == \E key \in DOMAIN errors : errors[key] # EMsg("")

SubmitOutcomes == {"promise"} \cup ThrownErrors

SettleOutcomes == {"fulfilled"} \cup ThrownErrors

\* this step is a submit event that the listener of line 166 handles
SubmitHandled ==
  "submit" \in listeners /\ \E outcome \in SubmitOutcomes : Submit(outcome)

\* this step is a change event on control i that the listener handles
ChangeHandled(i) == "change" \in listeners /\ (Click(i) \/ Change(i))

\* this step is the settling of the promise invocation i awaits
Settled(i) == \E outcome \in SettleOutcomes : Settle(i, outcome)

\* this step is a DOM event dispatched on the form
DomEvent ==
  \/ \E i \in ElementIds : \E v \in TextValues \cup NumberValues : Type(i, v)
  \/ \E i \in ElementIds : Input(i) \/ Click(i) \/ Change(i) \/ FocusOut(i)
  \/ \E outcome \in SubmitOutcomes : Submit(outcome)

\* the invocations that await their onSubmit callback
Pending == {i \in 1..Len(inv) : inv[i].pc = "await"}

\* statement a occurs in log, and statement b only after it
Precedes(log, a, b) ==
  \E m \in 1..Len(log) :
    /\ log[m] = a
    /\ \E n \in 1..Len(log) : log[n] = b
    /\ \A n \in 1..Len(log) : log[n] = b => m < n

\* C1: a submit event handled while the Errors object has a truthy entry
\* returns without a call of onSubmit, and leaves every Touched entry true
C1_ErrorsHaltSubmit ==
  [][ (SubmitHandled /\ ErrorsNonEmpty) =>
        /\ inv'[Len(inv')].calls = 0
        /\ inv'[Len(inv')].pc = "done"
        /\ \A key \in DOMAIN touched' : touched'[key] ]_vars

C1_Witness ==
  /\ ErrorsNonEmpty
  /\ DOMAIN touched # {}
  /\ \A key \in DOMAIN touched : touched[key]
  /\ \E i \in 1..Len(inv) :
       /\ inv[i].pc = "done"
       /\ inv[i].calls = 0
       /\ inv[i].log[Len(inv[i].log)] = "isSubmitting.set(false)"

\* C2: a submit event handled while the Errors object has no truthy entry
\* calls onSubmit exactly once, with the Data Record of that moment;
\* isSubmitting is true as long as a callback is pending and false right
\* after it settles
C2_SubmittingWhilePending ==
  [][ /\ (SubmitHandled /\ ~ErrorsNonEmpty) =>
           /\ inv'[Len(inv')].calls = 1
           /\ inv'[Len(inv')].pc = "await" => inv'[Len(inv')].arg = data
      /\ \A i \in 1..Len(inv') : inv'[i].pc = "await" => isSubmitting'
      /\ \A i \in 1..Len(inv) :
           Settled(i) => (inv'[i].calls = 1 /\ ~isSubmitting') ]_vars

\* C3: isSubmitting is true exactly while some invocation of handleSubmit
\* has started and not finished
C3_SubmittingIffInFlight ==
  isSubmitting <=> (\E i \in 1..Len(inv) : inv[i].pc # "done")

\* C4: at most one onSubmit callback is pending at any time
C4_OneInFlight == Cardinality(Pending) <= 1

\* C5: after destroy() no input, change, focusout or submit event changes
\* the Data Record, the Touched map or isSubmitting or starts a submission,
\* and no change of the Errors object reaches setCustomValidity
C5_DestroyDetaches ==
  [][ destroyed =>
        /\ DomEvent => UNCHANGED << data, touched, isSubmitting, inv >>
        /\ (\E e \in ErrorsValues : SetErrors(e)) => UNCHANGED validity ]_vars

\* C6: every invocation of handleSubmit that has started finishes, and
\* isSubmitting is false then, whichever path it took
C6_ReturnsToIdle ==
  \A i \in 1..MaxLiveSubmits :
    (Len(inv) >= i) ~> (Len(inv) >= i /\ inv[i].pc = "done" /\ ~isSubmitting)

\* statement a occurs in log
Executed(log, a) == \E m \in 1..Len(log) : log[m] = a

C6_Witness ==
  /\ ~isSubmitting
  /\ \E i \in 1..Len(inv) :
       /\ inv[i].pc = "done"
       /\ Executed(inv[i].log, "await")
       /\ inv[i].thrown # "none"

RadioGroup(i) ==
  {j \in ElementIds :
     Elements[j].type = "radio" /\ Elements[j].name = Elements[i].name}

\* the checkboxes named as checkbox i
CheckboxGroup(i) ==
  {j \in ElementIds :
     Elements[j].type = "checkbox" /\ Elements[j].name = Elements[i].name}

\* obj[name] is the value of the checked radio of group, undefined if none
HoldsRadioValue(obj, d, name, group) ==
  IF \E j \in group : d[j].checked
    THEN /\ name \in DOMAIN obj
         /\ \A j \in group : d[j].checked => obj[name] = Str(d[j].value)
    ELSE name \in DOMAIN obj => obj[name] = Undef

\* the values of the checked members of group, in DOM order
ValuesInDomOrder(d, group) ==
  LET IsChecked(j) == j \in group /\ d[j].checked
      checked == SelectSeq([j \in ElementIds |-> j], IsChecked)
  IN [k \in 1..Len(checked) |-> d[checked[k]].value]

\* C8: right after bind, and after every change event on a radio, the Data
\* Record holds the value of the group's checked radio, or undefined
C8_RadioValue ==
  [][ \A i \in ElementIds :
        (Elements[i].type = "radio" /\ (Bind \/ ChangeHandled(i))) =>
          HoldsRadioValue(data', dom', Elements[i].name, RadioGroup(i)) ]_vars

\* C9: right after bind, and after every change event on a checkbox of a
\* group of two or more, the Data Record holds the array of the values of
\* the group's checked boxes, in DOM order
C9_CheckboxGroupValue ==
  [][ \A i \in ElementIds :
        (/\ Elements[i].type = "checkbox"
         /\ Cardinality(CheckboxGroup(i)) > 1
         /\ Bind \/ ChangeHandled(i)) =>
          /\ Elements[i].name \in DOMAIN data'
          /\ data'[Elements[i].name] =
               Arr(ValuesInDomOrder(dom', CheckboxGroup(i))) ]_vars

C9_Witness ==
  /\ layout = 4
  /\ bound
  /\ "preferences" \in DOMAIN touched /\ touched["preferences"]
  /\ dom[1].checked /\ ~dom[2].checked /\ dom[3].checked
  /\ data["preferences"] = Arr(<<"technology", "music">>)

\* C10: right after bind, and after every change event on a checkbox that
\* is the only one with its name, the Data Record holds its checked state
\* as a boolean
C10_LoneCheckboxValue ==
  [][ \A i \in ElementIds :
        (/\ Elements[i].type = "checkbox"
         /\ Cardinality(CheckboxGroup(i)) = 1
         /\ Bind \/ ChangeHandled(i)) =>
          /\ Elements[i].name \in DOMAIN data'
          /\ data'[Elements[i].name] = Bool(dom'[i].checked) ]_vars

C10_Witness ==
  /\ layout = 1
  /\ bound
  /\ "showPassword" \in DOMAIN touched /\ touched["showPassword"]
  /\ dom[2].checked
  /\ data["showPassword"] = Bool(TRUE)

\* the names of the named input and textarea controls of the form
FieldNames ==
  {Elements[i].name :
     i \in {j \in ElementIds :
              /\ Elements[j].nodeName \in {"INPUT", "TEXTAREA"}
              /\ Elements[j].name # ""}}

\* control i is a named input or textarea
IsNamedField(i) ==
  Elements[i].nodeName \in {"INPUT", "TEXTAREA"} /\ Elements[i].name # ""

\* this step is a call of data.set
DataSetCalled == \E values \in SetValuesOf[layout] : DataSet(values)

\* C11: on the bound form a Touched entry that is true stays true under
\* input, change, focusout and submit events and under data.set; data.set
\* changes only entries that are false and keeps the keys
C11_TouchedMonotonic ==
  [][ bound =>
        /\ \A key \in DOMAIN touched :
             touched[key] => (key \in DOMAIN touched' /\ touched'[key])
        /\ DataSetCalled => DOMAIN touched' = DOMAIN touched ]_vars

C11_Witness ==
  /\ bound
  /\ config.initialValues
  /\ setBudget < MaxDataSets
  /\ Len(inv) > 0
  /\ data \in SetValuesOf[layout]
  /\ touched["email"]
  /\ Get(data, "email") = Get(initialValues, "email")

C13_TouchedAfterBind ==
  [][ Bind =>
        /\ DOMAIN touched' = FieldNames
        /\ \A key \in DOMAIN touched' : ~touched'[key] ]_vars

C13_Witness ==
  /\ layout = 2
  /\ bound
  /\ DOMAIN touched = {"bio", "age", "profile.picture"}
  /\ \A key \in DOMAIN touched : ~touched[key]
  /\ DOMAIN data = DOMAIN touched

\* C14: data.set(values) leaves the Data Record equal to values and, when
\* initialValues were supplied, every entry that was untouched true iff the
\* new value differs from the initial one; this in every configuration
C14_SetReconcilesTouched ==
  [][ \A values \in SetValuesOf[layout] :
        DataSet(values) =>
          /\ data' = values
          /\ DOMAIN touched' = DOMAIN touched
          /\ config.initialValues =>
               \A key \in DOMAIN touched :
                 ~touched[key] =>
                   (touched'[key] <=>
                      Get(values, key) # Get(initialValues, key)) ]_vars

\* name.split('.'): the path a dot-separated name denotes
Path(name) ==
  IF name = "profile.picture" THEN << "profile", "picture" >> ELSE << name >>

\* C15: the value of a control with a dot-separated name is held at the
\* nested path, in an object under the first segment, and never under a
\* key equal to the whole name, after bind and after every later event
C15_DottedNamesNested ==
  bound =>
    \A name \in FieldNames :
      Len(Path(name)) > 1 =>
        /\ name \notin DOMAIN data
        /\ Path(name)[1] \in DOMAIN data
        /\ data[Path(name)[1]].kind = "object"

\* the Errors object e has a truthy leaf, at the top or in a nested object
HasTruthyLeaf(e) ==
  \E key \in DOMAIN e :
    IF e[key].kind = "object"
      THEN \E n \in DOMAIN e[key].o : e[key].o[n][2] # ""
      ELSE e[key].s # ""

\* C16: a handled submit event halts, without a call of onSubmit, exactly
\* when the Errors object has a truthy leaf at some depth
C16_HaltsIffTruthyLeaf ==
  [][ SubmitHandled =>
        (inv'[Len(inv')].calls = 0 <=> HasTruthyLeaf(errors)) ]_vars

\* this step is an input event on control i that the listener handles
InputHandled(i) ==
  /\ "input" \in listeners
  /\ Input(i) \/ \E v \in TextValues \cup NumberValues : Type(i, v)

\* C17: a handled input event on a named input or textarea that is no
\* checkbox or radio makes touched[name] true and data[name] the number
\* the value converts to for number and range, else the string; on a
\* checkbox or radio it changes neither the Data Record nor the Touched map
C17_InputEvent ==
  [][ \A i \in ElementIds :
        InputHandled(i) =>
          IF isCheckable(Elements[i]) \/ ~IsNamedField(i)
            THEN UNCHANGED << data, touched >>
            ELSE /\ touched' = Spread(touched, Elements[i].name, TRUE)
                 /\ DOMAIN data' = (DOMAIN data) \cup {Elements[i].name}
                 /\ data'[Elements[i].name] =
                      IF Elements[i].type \in {"number", "range"}
                        THEN ToNumber(dom'[i].value)
                        ELSE Str(dom'[i].value) ]_vars

C17_Witness ==
  /\ layout = 2
  /\ bound
  /\ Len(inv) = 0
  /\ dom[3].value = "7"
  /\ touched["age"] /\ ~touched["bio"]
  /\ data["age"] = Num(7)

\* this step is a focusout event on control i that the listener handles
FocusOutHandled(i) == "focusout" \in listeners /\ FocusOut(i)

\* C18: a handled focusout event on a named input or textarea makes
\* touched[name] true and changes nothing else of the Touched map, the Data
\* Record or isSubmitting; on any other target it changes nothing
C18_FocusOutFrame ==
  [][ \A i \in ElementIds :
        FocusOutHandled(i) =>
          /\ UNCHANGED << data, isSubmitting >>
          /\ touched' =
               IF IsNamedField(i)
                 THEN Spread(touched, Elements[i].name, TRUE)
                 ELSE touched ]_vars

C18_Witness ==
  /\ layout = 2
  /\ bound
  /\ Len(inv) = 0
  /\ DOMAIN touched = FieldNames
  /\ touched["profile.picture"] /\ ~touched["bio"] /\ ~touched["age"]
  /\ dom[4].value = "" /\ data["profile.picture"] = Str("")

\* C19: an invocation that awaits its onSubmit callback when the form is
\* destroyed still resumes and finishes with isSubmitting false, and a
\* submit event after destroy() starts no invocation
C19_DestroyKeepsSubmission ==
  /\ \A i \in 1..MaxLiveSubmits :
       (destroyed /\ Len(inv) >= i /\ inv[i].pc = "await")
         ~> (/\ Len(inv) >= i
             /\ inv[i].pc = "done" /\ inv[i].calls = 1
             /\ ~isSubmitting)
  /\ [][ (destroyed /\ \E outcome \in SubmitOutcomes : Submit(outcome)) =>
           UNCHANGED << inv, isSubmitting, touched >> ]_vars

C19_Witness ==
  /\ destroyed
  /\ "submit" \notin listeners
  /\ isSubmitting
  /\ \E i \in 1..Len(inv) : inv[i].pc = "await" /\ inv[i].calls = 1

\* C20: no step of handleSubmit, on the halting, the succeeding or the
\* throwing path, changes the Data Record or the keys of the Touched map;
\* it changes Touched values to true only
C20_SubmitFrame ==
  [][ (SubmitHandled \/ \E i \in 1..Len(inv) : Settled(i)) =>
        /\ data' = data
        /\ DOMAIN touched' = DOMAIN touched
        /\ \A key \in DOMAIN touched :
             touched'[key] = touched[key] \/ touched'[key] ]_vars

C20_Witness ==
  /\ bound
  /\ DOMAIN touched = FieldNames
  /\ \A key \in DOMAIN touched : touched[key]
  /\ "email" \in DOMAIN data /\ data["email"] = Str("a")
  /\ Len(inv) = 2
  /\ inv[1].pc = "done" /\ inv[1].calls = 0
  /\ inv[2].pc = "done" /\ inv[2].calls = 1 /\ inv[2].err # "none"

====
